---- MODULE Spec2Model ----
(***************************************************************************)
(* Model of chigger's LabelExodusSource                                    *)
(* (python/chigger/exodus/LabelExodusSource.py): an adapter that attaches  *)
(* point / cell / variable labels to an ExodusSource.                      *)
(*                                                                         *)
(* The adapter's own code (__init__, getVTKSource, update) is translated   *)
(* from the source.  Its collaborators (ExodusSource, the options system   *)
(* of ChiggerObject, the base class update, the renderer) live in other    *)
(* files; they are modelled by the contract the specification gives them.  *)
(***************************************************************************)
EXTENDS Integers, Naturals, Sequences, FiniteSets, TLC

\* ---------------------------------------------------------------- bounds
\* Filter-stage instances are numbered 1..MaxAlloc; update() is not called
\* once a further call could run out of numbers.
MaxAlloc == 7

\* -------------------------------------------------------------- constants
None == "None"
Unset == "unset"

\* allow=['point', 'cell', 'variable'] of the label_type option
LabelTypes == {"point", "cell", "variable"}

\* values of the (inherited) justification font option
Justifications == {"center", "left"}

\* ExodusReader.NODAL / ExodusReader.ELEMENTAL
NODAL == "NODAL"
ELEMENTAL == "ELEMENTAL"

\* the variables of the mesh and their object types
Variables == {"u", "aux"}

ObjectType(name) == IF name = "aux" THEN ELEMENTAL ELSE NODAL

\* FILTER_TYPES = [filters.IdFilter, filters.CellCenters, filters.SelectVisiblePoints]
FILTER_TYPES == <<"IdFilter", "CellCenters", "SelectVisiblePoints">>

\* classes of the objects a caller may hand to the constructor
ArgTypes == {"ExodusSource", "ExodusReader", "NoneType"}

\* renderer handles (None until the framework sets one)
Renderers == {"ren1", "ren2"}

\* filter chains the mesh source may own; the last stage is the
\* block-extraction stage
SourceChains == {<<11>>, <<12, 13>>}

\* keyword arguments of the constructor and of update()
Kwargs == [label_type : LabelTypes \cup {Unset}, justification : Justifications \cup {Unset}]

NoKwargs == [label_type |-> Unset, justification |-> Unset]

\* ------------------------------------------------------------------ state
VARIABLES
    bound,              \* the caller holds a constructed adapter
    exodus_source,      \* self._exodus_source: None or the source
    options,            \* self._options
    initial_options,    \* the constructor's kwargs, not yet applied
    required_filters,   \* self._required_filters: sequence of stages
    filters,            \* ids of the stages wired by the base class update
    vtkmapper,          \* self._vtkmapper (a vtkLabeledDataMapper)
    vtkrenderer,        \* self._vtkrenderer
    exodus,             \* the state of the ExodusSource object
    nextId,             \* number of the next stage instance created
    lastCall,           \* the call just made and how it ended
    specified,          \* label_type most recently given by a caller
    evaluated,          \* label_type / object type read by the latest update
    built               \* label_type / object type the chain was built from

vars == <<bound, exodus_source, options, initial_options, required_filters,
          filters, vtkmapper, vtkrenderer, exodus, nextId, lastCall,
          specified, evaluated, built>>

adapterVars == <<bound, exodus_source, options, initial_options,
                 required_filters, filters, vtkmapper, vtkrenderer>>

\* ---------------------------------------------------------------- options
\* a plausible fault: the wrong default for label_type
getOptionsDefaultPoint == [label_type |-> "point", justification |-> "center"]

\* getOptions(): label_type defaults to 'variable', justification to 'center'
getOptions == [label_type |-> "variable", justification |-> "center"]

\* ChiggerObject.setOptions(**kwargs): the given keys replace the stored ones
setOptions(opt, kw) ==
    [label_type |-> IF kw.label_type = Unset THEN opt.label_type ELSE kw.label_type,
     justification |-> IF kw.justification = Unset THEN opt.justification
                       ELSE kw.justification]

\* ChiggerObject._setInitialOptions(): the constructor's kwargs are applied
\* by the first update and then dropped
setInitialOptions(opt, init) == setOptions(opt, init)

\* ----------------------------------------------------------- mesh source
\* ExodusSource.update(): the active variable becomes the one named by the
\* 'variable' option and the source is no longer stale
ExodusSourceUpdate(src) ==
    [src EXCEPT !.current = src.variable, !.needsUpdate = FALSE]

\* a plausible fault: the stale source is used as it is
RefreshSourceNever(src) == [src |-> src, refreshed |-> FALSE]

\* lines 64-65: refresh the source when it reports it is stale
RefreshSource(src) ==
    IF src.needsUpdate
        THEN [src |-> ExodusSourceUpdate(src), refreshed |-> TRUE]
        ELSE [src |-> src, refreshed |-> FALSE]

\* ExodusSource.getCurrentVariableInformation(): None when no variable is
\* active, else the variable's name and object type
getCurrentVariableInformation(src) ==
    IF src.current = None
        THEN [name |-> None, object_type |-> None]
        ELSE [name |-> src.current, object_type |-> ObjectType(src.current)]

\* ----------------------------------------------------------- filter chain
Last(seq) == seq[Len(seq)]

Types(chain) == [i \in 1..Len(chain) |-> chain[i].type]

Ids(chain) == {chain[i].id : i \in 1..Len(chain)}

\* a plausible fault: an elemental variable is labelled at the points
ChooseFiltersNoCenters(label_type, object_type) ==
    IF label_type = "cell"
        THEN <<"IdFilter", "CellCenters", "SelectVisiblePoints">>
    ELSE IF label_type = "point"
        THEN <<"IdFilter", "SelectVisiblePoints">>
    ELSE <<"SelectVisiblePoints">>

\* a plausible fault: the point chain is the cell chain
ChooseFiltersPointAsCell(label_type, object_type) ==
    IF label_type = "cell" \/ label_type = "point"
        THEN <<"IdFilter", "CellCenters", "SelectVisiblePoints">>
    ELSE IF object_type = ELEMENTAL
        THEN <<"CellCenters", "SelectVisiblePoints">>
    ELSE <<"SelectVisiblePoints">>

\* lines 72-84: the stage types chosen for a label type; object_type is
\* read only in the else branch
ChooseFilters(label_type, object_type) ==
    IF label_type = "cell"
        THEN <<"IdFilter", "CellCenters", "SelectVisiblePoints">>
    ELSE IF label_type = "point"
        THEN <<"IdFilter", "SelectVisiblePoints">>
    ELSE IF object_type = ELEMENTAL
        THEN <<"CellCenters", "SelectVisiblePoints">>
    ELSE <<"SelectVisiblePoints">>

\* a plausible fault: a stage of the previous chain is kept when the new
\* chain needs one of the same type
NewFiltersReusing(types, previous, firstId) ==
    [i \in 1..Len(types) |->
        IF \E j \in 1..Len(previous) : previous[j].type = types[i]
            THEN previous[CHOOSE j \in 1..Len(previous) : previous[j].type = types[i]]
            ELSE [type |-> types[i], id |-> firstId + i - 1, renderer |-> None]]

\* lines 74, 77, 82, 84: filters.X() creates a new instance for every
\* stage; the previous list is dropped
NewFilters(types, previous, firstId) ==
    [i \in 1..Len(types) |->
        [type |-> types[i], id |-> firstId + i - 1, renderer |-> None]]

\* a plausible fault: the renderer is given to the first stage
SetRendererOnFirst(chain, renderer) ==
    [chain EXCEPT ![1].renderer = renderer]

\* line 92: self._required_filters[-1].getVTKFilter().SetRenderer(...)
SetRenderer(chain, renderer) ==
    [chain EXCEPT ![Len(chain)].renderer = renderer]

\* ----------------------------------------------------------------- mapper
\* vtk.vtkLabeledDataMapper(): labels IDs until told otherwise
NewMapper == [labelMode |-> "LabelIds", fieldDataName |-> None,
              justification |-> "left"]

\* a plausible fault: the label mode is set before the metadata is read
ConfigureMapperEarly(mapper, label_type, varinfo, name) ==
    IF label_type = "cell" \/ label_type = "point"
        THEN [mapper EXCEPT !.labelMode = "LabelIds"]
        ELSE [mapper EXCEPT !.fieldDataName = name,
                            !.labelMode = "LabelFieldData"]

\* a plausible fault: the field-data name is never set
ConfigureMapperNoName(mapper, label_type, varinfo, name) ==
    IF label_type = "cell" \/ label_type = "point"
        THEN [mapper EXCEPT !.labelMode = "LabelIds"]
    ELSE IF varinfo.object_type = None
        THEN mapper
    ELSE [mapper EXCEPT !.labelMode = "LabelFieldData"]

\* lines 75, 78, 85, 86: the label mode; in the else branch line 81 has
\* already raised when there is no variable information
ConfigureMapper(mapper, label_type, varinfo, name) ==
    IF label_type = "cell" \/ label_type = "point"
        THEN [mapper EXCEPT !.labelMode = "LabelIds"]
    ELSE IF varinfo.object_type = None
        THEN mapper
    ELSE [mapper EXCEPT !.fieldDataName = name,
                        !.labelMode = "LabelFieldData"]

\* line 95: utils.FontOptions.set_options(text property, self._options)
FontOptionsSetOptions(mapper, opt) ==
    [mapper EXCEPT !.justification = opt.justification]

\* ------------------------------------------------------------ constructor
\* a plausible fault: the type check is missing
isinstanceAny(argType) == TRUE

\* line 44: isinstance(exodus_source, ExodusSource)
isinstanceExodusSource(argType) == argType = "ExodusSource"

\* a plausible fault: the first stage of the source's chain is returned
getVTKSourceFirst(src) == src.filters[1]

\* line 56: self._exodus_source.getFilters()[-1].getVTKFilter()
getVTKSource(src) == Last(src.filters)

Call(op, ok, arg, kw, steps, ret) ==
    [op |-> op, ok |-> ok, arg |-> arg, kw |-> kw, steps |-> steps, ret |-> ret]

NoEvaluation == [label_type |-> None, object_type |-> None]

\* ------------------------------------------------------------------- Init
Init ==
    /\ bound = FALSE
    /\ exodus_source = None
    /\ options = getOptions
    /\ initial_options = NoKwargs
    /\ required_filters = <<>>
    /\ filters = <<>>
    /\ vtkmapper = NewMapper
    /\ vtkrenderer = None
    /\ exodus \in [variable : Variables \cup {None}, current : {None},
                   needsUpdate : {TRUE}, filters : SourceChains]
    /\ nextId = 1
    /\ lastCall = Call("none", TRUE, None, NoKwargs, {}, 0)
    /\ specified = Unset
    /\ evaluated = NoEvaluation
    /\ built = NoEvaluation

\* ---------------------------------------------------------------- actions
\* LabelExodusSource(arg, **kw), lines 41-47
Construct(argType, kw) ==
    /\ ~bound
    \* line 42: the base class builds the options, keeps the kwargs for the
    \* first update and creates the mapper
    /\ options' = getOptions
    /\ initial_options' = kw
    /\ required_filters' = <<>>
    /\ filters' = <<>>
    /\ vtkmapper' = NewMapper
    /\ vtkrenderer' = None
    /\ IF ~isinstanceExodusSource(argType)
         THEN \* line 45: raise MooseException; the caller gets no object
              /\ bound' = FALSE
              /\ exodus_source' = None
              /\ specified' = Unset
              /\ lastCall' = Call("construct", FALSE, argType, kw, {}, 0)
         ELSE \* line 47
              /\ bound' = TRUE
              /\ exodus_source' = "exodus"
              /\ specified' = kw.label_type
              /\ lastCall' = Call("construct", TRUE, argType, kw, {}, 0)
    /\ UNCHANGED <<exodus, nextId, evaluated, built>>

\* getVTKSource(), lines 49-56
GetVTKSource ==
    /\ bound
    /\ lastCall' = Call("getVTKSource", TRUE, None, NoKwargs, {}, getVTKSource(exodus))
    /\ UNCHANGED <<adapterVars, exodus, nextId, specified, evaluated, built>>

\* update(**kw), lines 58-95
Update(kw) ==
    /\ bound
    /\ nextId + Len(FILTER_TYPES) <= MaxAlloc + 1
    /\ LET r == RefreshSource(exodus)                              \* 64-65
           opt == setOptions(setInitialOptions(options, initial_options), kw) \* 68-69
           label_type == opt.label_type                            \* 72
           varinfo == getCurrentVariableInformation(r.src)         \* 80
           raises == /\ label_type # "cell"
                     /\ label_type # "point"
                     /\ varinfo.object_type = None                 \* 81
           types == ChooseFilters(label_type, varinfo.object_type)
           chain == NewFilters(types, required_filters, nextId)
           mapper == ConfigureMapper(vtkmapper, label_type, varinfo,
                                     r.src.variable)               \* 85
           refreshed == IF r.refreshed THEN {"refresh"} ELSE {}
           read == [label_type |-> label_type,
                    object_type |-> IF label_type \in {"cell", "point"}
                                    THEN None ELSE varinfo.object_type]
       IN  /\ exodus' = r.src
           /\ evaluated' = read
           /\ options' = opt
           /\ initial_options' = NoKwargs
           /\ specified' = IF kw.label_type = Unset THEN specified
                           ELSE kw.label_type
           /\ IF raises
                THEN /\ vtkmapper' = mapper
                     /\ UNCHANGED <<required_filters, filters, nextId, built>>
                     /\ lastCall' = Call("update", FALSE, None, kw, refreshed, 0)
                ELSE /\ required_filters' = SetRenderer(chain, vtkrenderer) \* 92
                     /\ filters' = [i \in 1..Len(chain) |-> chain[i].id] \* 89
                     /\ vtkmapper' = FontOptionsSetOptions(mapper, opt) \* 95
                     /\ nextId' = nextId + Len(types)
                     /\ built' = read
                     /\ lastCall' = Call("update", TRUE, None, kw,
                                         refreshed \cup {"base", "renderer", "font"}, 0)
    /\ UNCHANGED <<bound, exodus_source, vtkrenderer>>

\* the framework attaches the adapter to a renderer
SetVTKRenderer(r) ==
    /\ bound
    /\ vtkrenderer # r
    /\ vtkrenderer' = r
    /\ lastCall' = Call("setVTKRenderer", TRUE, None, NoKwargs, {}, 0)
    /\ UNCHANGED <<bound, exodus_source, options, initial_options,
                   required_filters, filters, vtkmapper, exodus, nextId,
                   specified, evaluated, built>>

\* somebody changes the 'variable' option of the mesh source
SourceSetOptions(v) ==
    /\ exodus.variable # v
    /\ exodus' = [exodus EXCEPT !.variable = v, !.needsUpdate = TRUE]
    /\ lastCall' = Call("sourceSetOptions", TRUE, None, NoKwargs, {}, 0)
    /\ UNCHANGED <<adapterVars, nextId, specified, evaluated, built>>

\* somebody changes the filters of the mesh source
SourceSetFilters(c) ==
    /\ exodus.filters # c
    /\ exodus' = [exodus EXCEPT !.filters = c, !.needsUpdate = TRUE]
    /\ lastCall' = Call("sourceSetFilters", TRUE, None, NoKwargs, {}, 0)
    /\ UNCHANGED <<adapterVars, nextId, specified, evaluated, built>>

\* somebody else (the result object, a sibling adapter) updates the source
SourceUpdate ==
    /\ exodus.needsUpdate
    /\ exodus' = ExodusSourceUpdate(exodus)
    /\ lastCall' = Call("sourceUpdate", TRUE, None, NoKwargs, {}, 0)
    /\ UNCHANGED <<adapterVars, nextId, specified, evaluated, built>>

Next ==
    \/ \E a \in ArgTypes, kw \in Kwargs : Construct(a, kw)
    \/ GetVTKSource
    \/ \E kw \in Kwargs : Update(kw)
    \/ \E r \in Renderers : SetVTKRenderer(r)
    \/ \E v \in Variables \cup {None} : SourceSetOptions(v)
    \/ \E c \in SourceChains : SourceSetFilters(c)
    \/ SourceUpdate

Spec == Init /\ [][Next]_vars

TypeOK ==
    /\ bound \in BOOLEAN
    /\ exodus_source \in {None, "exodus"}
    /\ options \in [label_type : LabelTypes, justification : Justifications]
    /\ initial_options \in Kwargs
    /\ nextId \in 1..(MaxAlloc + 1)
    /\ Len(required_filters) <= Len(FILTER_TYPES)

\* ------------------------------------------------------------- properties
\* the decision table of the label adapter, written out
DecisionTable(label_type, object_type) ==
    CASE label_type = "cell" -> <<"IdFilter", "CellCenters", "SelectVisiblePoints">>
      [] label_type = "point" -> <<"IdFilter", "SelectVisiblePoints">>
      [] label_type = "variable" /\ object_type = ELEMENTAL ->
             <<"CellCenters", "SelectVisiblePoints">>
      [] label_type = "variable" /\ object_type = NODAL -> <<"SelectVisiblePoints">>
      [] OTHER -> <<"no entry">>

\* object type of the variable active on the mesh source
ActiveObjectType ==
    IF exodus.current = None THEN None ELSE ObjectType(exodus.current)

UpdateReturned == lastCall.op = "update" /\ lastCall.ok

UpdateRaised == lastCall.op = "update" /\ ~lastCall.ok

Index(type) == CHOOSE i \in 1..Len(FILTER_TYPES) : FILTER_TYPES[i] = type

\* C1: after an update() that returns normally the stage types of the
\* chain are exactly the decision-table entry for the resolved label_type
\* and the object type of the active variable; for cell and point the
\* entry is the same whatever the variable (also when there is none).
C1_DecisionTable ==
    UpdateReturned =>
        /\ options.label_type = "cell" =>
              Types(required_filters) = <<"IdFilter", "CellCenters", "SelectVisiblePoints">>
        /\ options.label_type = "point" =>
              Types(required_filters) = <<"IdFilter", "SelectVisiblePoints">>
        /\ (options.label_type = "variable" /\ ActiveObjectType = ELEMENTAL) =>
              Types(required_filters) = <<"CellCenters", "SelectVisiblePoints">>
        /\ (options.label_type = "variable" /\ ActiveObjectType = NODAL) =>
              Types(required_filters) = <<"SelectVisiblePoints">>

C1_Witness ==
    /\ UpdateReturned
    /\ options.label_type = "variable"
    /\ ActiveObjectType = ELEMENTAL
    /\ Types(required_filters) = <<"CellCenters", "SelectVisiblePoints">>

\* C2: a constructor call whose argument is not an ExodusSource fails,
\* leaves no adapter holding a source reference, and update() and
\* getVTKSource() are only ever performed on an adapter that holds one.
C2_ConstructRejects ==
    /\ (lastCall.op = "construct" /\ lastCall.arg # "ExodusSource") =>
           (~lastCall.ok /\ ~bound /\ exodus_source = None)
    /\ lastCall.op \in {"update", "getVTKSource"} =>
           (bound /\ exodus_source # None)
    /\ ~bound => exodus_source = None

C2_Witness ==
    /\ lastCall.op = "construct"
    /\ lastCall.arg = "ExodusReader"
    /\ lastCall.kw.label_type = "cell"
    /\ ~lastCall.ok

C4_LabelMode ==
    UpdateReturned =>
        /\ options.label_type \in {"cell", "point"} =>
              vtkmapper.labelMode = "LabelIds"
        /\ options.label_type = "variable" =>
              /\ vtkmapper.labelMode = "LabelFieldData"
              /\ exodus.current # None
              /\ vtkmapper.fieldDataName = exodus.current

C4_Witness ==
    /\ UpdateReturned
    /\ options.label_type = "variable"
    /\ vtkmapper.labelMode = "LabelFieldData"
    /\ vtkmapper.fieldDataName = "aux"

\* C5: getVTKSource() returns the last stage of the mesh source's own
\* chain and changes neither the adapter nor the mesh source.
C5_GetVTKSource ==
    [][lastCall'.op = "getVTKSource" =>
          /\ lastCall'.ret = exodus.filters[Len(exodus.filters)]
          /\ UNCHANGED <<adapterVars, exodus>>]_vars

C5_Witness ==
    /\ lastCall.op = "getVTKSource"
    /\ required_filters = <<>>
    /\ Len(exodus.filters) = 2
    /\ lastCall.ret = 13

\* C6 as stated: in every state of an adapter that has evaluated its
\* label_type (update() was called, whether it returned or raised) the chain is the
\* decision-table entry for the label_type and object type last evaluated,
\* and the label_type of the options is the one the chain was built from.
C6_Original ==
    (bound /\ evaluated # NoEvaluation) =>
        /\ evaluated.label_type = options.label_type
        /\ Types(required_filters) =
              DecisionTable(evaluated.label_type, evaluated.object_type)

\* C6 amended: the chain is empty until an update() has returned normally
\* and from then on is the decision-table entry for the label_type and
\* object type read by the latest update() that returned normally; the
\* options hold that label_type when update() has just returned normally,
\* and 'variable' (with no object type read) when it has just raised.
C6_Amended ==
    /\ built = NoEvaluation => required_filters = <<>>
    /\ built # NoEvaluation =>
          Types(required_filters) =
              DecisionTable(built.label_type, built.object_type)
    /\ UpdateReturned => (built = evaluated /\ options.label_type = built.label_type)
    /\ UpdateRaised =>
          (evaluated.object_type = None /\ options.label_type = "variable")

C6_Witness ==
    /\ UpdateRaised
    /\ built.label_type = "point"
    /\ Types(required_filters) = <<"IdFilter", "SelectVisiblePoints">>
    /\ options.label_type = "variable"

\* C7: update() refreshes the mesh source exactly when the source is
\* stale, and the chain, the field-data name and the failure for a missing
\* variable are all decided from the refreshed source.
C7_RefreshFirst ==
    [][lastCall'.op = "update" =>
          /\ ("refresh" \in lastCall'.steps) <=> exodus.needsUpdate
          /\ exodus.needsUpdate =>
                (exodus'.current = exodus.variable /\ ~exodus'.needsUpdate)
          /\ ~exodus.needsUpdate => exodus' = exodus
          /\ (lastCall'.ok /\ options'.label_type = "variable") =>
                /\ exodus.variable # None
                /\ Types(required_filters') =
                      DecisionTable("variable", ObjectType(exodus.variable))
                /\ vtkmapper'.fieldDataName = exodus.variable
          /\ (options'.label_type = "variable" /\ exodus.variable = None) =>
                ~lastCall'.ok]_vars

C7_Witness ==
    /\ UpdateReturned
    /\ "refresh" \in lastCall.steps
    /\ options.label_type = "variable"
    /\ exodus.current = "u"
    /\ nextId > 3

\* C8: the label_type resolved by an update() is the one most recently
\* given by a caller (to this update(), an earlier one, or the
\* constructor), else 'variable'; the chain of an update() that returns
\* normally is the decision-table entry for it.
C8_Sticky ==
    lastCall.op = "update" =>
        LET resolved == IF specified = Unset THEN "variable" ELSE specified
        IN  /\ options.label_type = resolved
            /\ lastCall.ok =>
                  Types(required_filters) = DecisionTable(resolved, ActiveObjectType)

C8_Witness ==
    /\ UpdateReturned
    /\ lastCall.kw.label_type = Unset
    /\ specified = "cell"
    /\ required_filters[1].id > 1
    /\ Types(required_filters) = <<"IdFilter", "CellCenters", "SelectVisiblePoints">>

\* C9: an update() raises exactly when it resolves label_type=variable and
\* the mesh source has no active variable; it then leaves the chain, the
\* wired stages, the label mode, the field-data name and the text
\* properties as they were, and performs neither the base class update nor
\* the renderer injection nor the font configuration.
C9_RaiseLeavesChain ==
    [][lastCall'.op = "update" =>
          /\ ~lastCall'.ok <=>
                (options'.label_type = "variable" /\ exodus'.current = None)
          /\ ~lastCall'.ok =>
                /\ required_filters' = required_filters
                /\ filters' = filters
                /\ vtkmapper' = vtkmapper
                /\ nextId' = nextId
                /\ lastCall'.steps \cap {"base", "renderer", "font"} = {}]_vars

C9_Witness ==
    /\ UpdateRaised
    /\ Len(required_filters) = 3
    /\ vtkmapper.labelMode = "LabelIds"
    /\ vtkmapper.justification # options.justification
    /\ required_filters[3].renderer # vtkrenderer

\* C10: after an update() that returns normally the chain is not empty,
\* ends with a SelectVisiblePoints stage holding the adapter's renderer,
\* and its stage types are distinct members of FILTER_TYPES in the order
\* of FILTER_TYPES.
C10_ChainShape ==
    UpdateReturned =>
        /\ Len(required_filters) > 0
        /\ Last(required_filters).type = "SelectVisiblePoints"
        /\ Last(required_filters).renderer = vtkrenderer
        /\ \A i \in 1..Len(required_filters) :
              \E k \in 1..Len(FILTER_TYPES) : required_filters[i].type = FILTER_TYPES[k]
        /\ \A i, j \in 1..Len(required_filters) :
              i < j => Index(required_filters[i].type) < Index(required_filters[j].type)

C10_Witness ==
    /\ UpdateReturned
    /\ Len(required_filters) = 3
    /\ vtkrenderer = "ren2"
    /\ Last(required_filters).renderer = "ren2"

====
